---- MODULE Spec2Model ----
(***************************************************************************)
(* Model of server/internal/api/api.go: the HTTP handler of the room       *)
(* server.  The shared state of apiHandler is the map `subscribes`         *)
(* (raw room id -> connection -> cancel function) and the mutex `mu`.      *)
(* Each handleSubscribe call is a goroutine; its position is pc[h].        *)
(***************************************************************************)
EXTENDS Integers, Sequences, FiniteSets, TLC

\* ---------------------------------------------------------------- bounds
MaxHandlers == 2        \* concurrent handleSubscribe goroutines

Handlers == 1..MaxHandlers
\* every goroutine upgrades at most once, and every upgrade allocates a new
\* *websocket.Conn: the connection is named after the goroutine that owns it
Conns    == 1..MaxHandlers

\* ---------------------------------------------------------- identifiers
\* A 128-bit room id, written in canonical (lower-case) hexadecimal text.
UUIDs == {"u1", "u2"}

\* A raw path segment is a sequence of text pieces: an optional prefix or
\* brace, and the 36 characters of hexadecimal text of the id itself.
RawIds == { <<"u1">>, <<"urn:uuid:", "U1">>, <<"u2">>, <<"not-a-uuid">> }

\* The ids the store gives to the rooms it creates.  "u2" is a well-formed
\* id that no room ever gets.
NewRoomIds == {"u1"}

\* hexadecimal digits decode the same in either case (uuid xvalues table)
Lower(t) ==
    CASE t = "U1" -> "u1"
      [] t = "U2" -> "u2"
      [] OTHER    -> t

IsHexText(t) == Lower(t) \in UUIDs

NoUUID == "nil"

\* (a slip: the error of uuid.Parse is dropped, any one-piece text passes)
ParseUnchecked(s) ==
    CASE Len(s) = 1                                          -> Lower(s[1])
      [] Len(s) = 2 /\ s[1] = "urn:uuid:" /\ IsHexText(s[2]) -> Lower(s[2])
      [] OTHER                                               -> NoUUID

\* uuid.Parse: accepts the plain form, the urn:uuid: form and the braced
\* form; the result is the 128-bit value, whatever the text looked like.
Parse(s) ==
    CASE Len(s) = 1 /\ IsHexText(s[1])                       -> Lower(s[1])
      [] Len(s) = 2 /\ s[1] = "urn:uuid:" /\ IsHexText(s[2]) -> Lower(s[2])
      [] Len(s) = 3 /\ s[1] = "{" /\ s[3] = "}" /\ IsHexText(s[2])
                                                             -> Lower(s[2])
      [] OTHER                                               -> NoUUID

\* ------------------------------------------------------------ the state
VARIABLES
    rooms,          \* the store: ids of the rooms that exist
    subscribes,     \* h.subscribes: raw room id -> (conn -> cancel func)
    mu,             \* h.mu: 0 when unlocked, else the goroutine holding it
    pc,             \* position of each handleSubscribe goroutine
    rawRoomId,      \* local rawRoomId
    roomId,         \* local roomId (parsed)
    err,            \* local err, as last assigned
    c,              \* local c: the upgraded connection, 0 when none
    resp,           \* what the handler wrote to the ResponseWriter
    reqDone,        \* r.Context() has been cancelled
    cancelled,      \* the cancel function of the handler's ctx was invoked
    clientClosed,   \* the client closed its side of the TCP connection
    closeCalls,     \* number of c.Close() calls per connection
    removals,       \* number of times a connection left the registry
    served,         \* room ids for which a mutating request was answered
    delivered       \* number of messages written to each connection

vars == <<rooms, subscribes, mu, pc, rawRoomId, roomId, err, c, resp,
          reqDone, cancelled, clientClosed, closeCalls, removals,
          served, delivered>>

hvars == <<rawRoomId, roomId, err, c, resp>>
evars == <<reqDone, cancelled, clientClosed>>
wvars == <<served, delivered>>

NoRaw  == <<>>
NoConn == 0
NoResp == [code |-> "none", msg |-> ""]
Free   == 0

EmptyMap == [x \in {} |-> 0]

\* ------------------------------------------------- registry operations
\* h.subscribes[key] = make(map[*websocket.Conn]context.CancelFunc, 0)
MakeRoom(subs, key) ==
    [k \in DOMAIN subs \cup {key} |-> IF k = key THEN EmptyMap ELSE subs[k]]

\* (a slip: the room's map is replaced by one holding only the newcomer)
InsertOverwrite(subs, key, conn, cancel) ==
    [subs EXCEPT ![key] = [x \in {conn} |-> cancel]]

\* (a slip: every entry gets the cancel function of the first goroutine)
InsertStaleCancel(subs, key, conn, cancel) ==
    [subs EXCEPT ![key] =
        [x \in DOMAIN @ \cup {conn} |-> IF x = conn THEN 1 ELSE @[x]]]

\* h.subscribes[key][conn] = cancel
Insert(subs, key, conn, cancel) ==
    [subs EXCEPT ![key] =
        [x \in DOMAIN @ \cup {conn} |-> IF x = conn THEN cancel ELSE @[x]]]

\* (a slip: the whole listener set of the room is emptied)
DeleteAll(subs, key, conn) ==
    IF key \in DOMAIN subs THEN [subs EXCEPT ![key] = EmptyMap] ELSE subs

\* (a slip: a missing room is created on the way to the delete)
DeleteCreatesRoom(subs, key, conn) ==
    IF key \in DOMAIN subs
    THEN [subs EXCEPT ![key] = [x \in DOMAIN @ \ {conn} |-> @[x]]]
    ELSE [k \in DOMAIN subs \cup {key} |->
             IF k = key THEN EmptyMap ELSE subs[k]]

\* (a slip: a room whose last listener leaves is dropped from the map)
DeleteDropsEmptyRoom(subs, key, conn) ==
    IF key \in DOMAIN subs
    THEN IF DOMAIN subs[key] \ {conn} = {}
         THEN [k \in DOMAIN subs \ {key} |-> subs[k]]
         ELSE [subs EXCEPT ![key] = [x \in DOMAIN @ \ {conn} |-> @[x]]]
    ELSE subs

\* (a slip: the delete is missing, or aimed at a key that is not there)
DeleteForgotten(subs, key, conn) == subs

\* delete(h.subscribes[key], conn): indexing a missing key yields the nil
\* map, and delete on a nil map or of a missing key does nothing.
Delete(subs, key, conn) ==
    IF key \in DOMAIN subs
    THEN [subs EXCEPT ![key] = [x \in DOMAIN @ \ {conn} |-> @[x]]]
    ELSE subs

\* the listener set of a room key
Listeners(subs, key) == IF key \in DOMAIN subs THEN DOMAIN subs[key] ELSE {}

\* ctx.Done() is closed when the parent context ends or cancel is called
Done(h) == reqDone[h] \/ cancelled[h]

\* ----------------------------------------------------------------- Init
Init ==
    /\ rooms = {}
    /\ subscribes = [k \in {} |-> EmptyMap]
    /\ mu = Free
    /\ pc = [h \in Handlers |-> "idle"]
    /\ rawRoomId = [h \in Handlers |-> NoRaw]
    /\ roomId = [h \in Handlers |-> NoUUID]
    /\ err = [h \in Handlers |-> "nil"]
    /\ c = [h \in Handlers |-> NoConn]
    /\ resp = [h \in Handlers |-> NoResp]
    /\ reqDone = [h \in Handlers |-> FALSE]
    /\ cancelled = [h \in Handlers |-> FALSE]
    /\ clientClosed = [h \in Handlers |-> FALSE]
    /\ closeCalls = [x \in Conns |-> 0]
    /\ removals = [x \in Conns |-> 0]
    /\ served = {}
    /\ delivered = [x \in Conns |-> 0]

\* ------------------------------------------------------ handleCreateRoom
\* Decodes the body, inserts the room and answers with its id.  An invalid
\* body or a store error leaves the store as it was.
handleCreateRoom ==
    \E id \in NewRoomIds \ rooms :
        /\ rooms' = rooms \cup {id}
        /\ UNCHANGED <<subscribes, mu, pc, hvars, evars, closeCalls,
                       removals, wvars>>

\* ------------------------------------------------------- handleSubscribe
\* rawRoomId := chi.URLParam(r, "room_id")
\* roomId, err := uuid.Parse(rawRoomId); on error: 400 and return
\* (goroutines are numbered in the order their requests arrive)
ParseRoomId(h) ==
    /\ pc[h] = "idle"
    /\ \A g \in Handlers : g < h => pc[g] # "idle"
    /\ \E raw \in RawIds :
        /\ rawRoomId' = [rawRoomId EXCEPT ![h] = raw]
        /\ IF Parse(raw) = NoUUID
           THEN /\ err' = [err EXCEPT ![h] = "invalid"]
                /\ resp' = [resp EXCEPT ![h] =
                      [code |-> "StatusBadRequest", msg |-> "Invalid room id"]]
                /\ pc' = [pc EXCEPT ![h] = "done"]
                /\ UNCHANGED roomId
           ELSE /\ roomId' = [roomId EXCEPT ![h] = Parse(raw)]
                /\ pc' = [pc EXCEPT ![h] = "getroom"]
                /\ UNCHANGED <<err, resp>>
    /\ UNCHANGED <<rooms, subscribes, mu, c, evars, closeCalls, removals,
                   wvars>>

\* what h.q.GetRoom(r.Context(), roomId) can return
GetRoomResults(h) ==
    IF reqDone[h] THEN {"ErrStore"}            \* context canceled
    ELSE {"ErrStore"} \cup
         (IF roomId[h] \in rooms THEN {"nil"} ELSE {"ErrNoRows"})

\* _, err = h.q.GetRoom(...); ErrNoRows: 400 "Room not found"; other
\* errors: 500; both return
GetRoom(h) ==
    /\ pc[h] = "getroom"
    /\ \E e \in GetRoomResults(h) :
        /\ err' = [err EXCEPT ![h] = e]
        /\ CASE e = "ErrNoRows" ->
                  /\ resp' = [resp EXCEPT ![h] =
                        [code |-> "StatusBadRequest", msg |-> "Room not found"]]
                  /\ pc' = [pc EXCEPT ![h] = "done"]
             [] e = "ErrStore" ->
                  /\ resp' = [resp EXCEPT ![h] =
                        [code |-> "StatusInternalServerError",
                         msg |-> "Something went wrong"]]
                  /\ pc' = [pc EXCEPT ![h] = "done"]
             [] OTHER ->
                  /\ pc' = [pc EXCEPT ![h] = "upgrade"]
                  /\ UNCHANGED resp
    /\ UNCHANGED <<rooms, subscribes, mu, rawRoomId, roomId, c, evars,
                   closeCalls, removals, wvars>>

\* (a slip: one connection object handed to every goroutine)
NewConnShared(h) == 1

\* the connection a successful upgrade returns to goroutine h: a new one,
\* shared with no other goroutine
NewConn(h) == h

\* (a slip: the return after a failed upgrade is missing)
UpgradeFallsThrough(h) ==
    /\ pc[h] = "upgrade"
    /\ \/ /\ err' = [err EXCEPT ![h] = "ErrUpgrade"]
          /\ resp' = [resp EXCEPT ![h] =
                [code |-> "StatusBadRequest",
                 msg |-> "Failed to upgrade to WS connection"]]
          /\ pc' = [pc EXCEPT ![h] = "lock1"]
          /\ UNCHANGED <<c>>
       \/ /\ c' = [c EXCEPT ![h] = NewConn(h)]
          /\ resp' = [resp EXCEPT ![h] =
                [code |-> "StatusSwitchingProtocols", msg |-> ""]]
          /\ pc' = [pc EXCEPT ![h] = "lock1"]
          /\ UNCHANGED err
    /\ UNCHANGED <<rooms, subscribes, mu, rawRoomId, roomId, evars,
                   closeCalls, removals, wvars>>

\* c, err := h.upgrader.Upgrade(w, r, nil); on error: 400 and return;
\* on success the connection is hijacked and defer c.Close() is armed
Upgrade(h) ==
    /\ pc[h] = "upgrade"
    /\ \/ /\ err' = [err EXCEPT ![h] = "ErrUpgrade"]
          /\ resp' = [resp EXCEPT ![h] =
                [code |-> "StatusBadRequest",
                 msg |-> "Failed to upgrade to WS connection"]]
          /\ pc' = [pc EXCEPT ![h] = "done"]
          /\ UNCHANGED <<c>>
       \/ /\ c' = [c EXCEPT ![h] = NewConn(h)]
          /\ resp' = [resp EXCEPT ![h] =
                [code |-> "StatusSwitchingProtocols", msg |-> ""]]
          /\ pc' = [pc EXCEPT ![h] = "lock1"]
          /\ UNCHANGED err
    /\ UNCHANGED <<rooms, subscribes, mu, rawRoomId, roomId, evars,
                   closeCalls, removals, wvars>>

\* (a slip: Lock that never waits)
CanLockAlways(m) == TRUE

\* sync.Mutex.Lock blocks until the mutex is free
CanLock(m) == m = Free

\* h.mu.Lock()   (line 120)
Lock1(h) ==
    /\ pc[h] = "lock1"
    /\ CanLock(mu)
    /\ mu' = h
    /\ pc' = [pc EXCEPT ![h] = "check"]
    /\ UNCHANGED <<rooms, subscribes, hvars, evars, closeCalls, removals, wvars>>

\* ctx, cancel := context.WithCancel(r.Context())
\* if _, ok := h.subscribes[rawRoomId]; !ok { ... }
CheckRoom(h) ==
    /\ pc[h] = "check"
    /\ pc' = [pc EXCEPT ![h] =
          IF rawRoomId[h] \in DOMAIN subscribes THEN "insert" ELSE "make"]
    /\ UNCHANGED <<rooms, subscribes, mu, hvars, evars, closeCalls,
                   removals, wvars>>

\* h.subscribes[rawRoomId] = make(...)
Make(h) ==
    /\ pc[h] = "make"
    /\ subscribes' = MakeRoom(subscribes, rawRoomId[h])
    /\ pc' = [pc EXCEPT ![h] = "insert"]
    /\ UNCHANGED <<rooms, mu, hvars, evars, closeCalls, removals, wvars>>

\* h.subscribes[rawRoomId][c] = cancel
Register(h) ==
    /\ pc[h] = "insert"
    /\ subscribes' = Insert(subscribes, rawRoomId[h], c[h], h)
    /\ pc' = [pc EXCEPT ![h] = "unlock1"]
    /\ UNCHANGED <<rooms, mu, hvars, evars, closeCalls, removals, wvars>>

\* (a slip: the Unlock before the wait is missing)
Unlock1Forgotten(h) ==
    /\ pc[h] = "unlock1"
    /\ pc' = [pc EXCEPT ![h] = "wait"]
    /\ UNCHANGED <<rooms, subscribes, mu, hvars, evars, closeCalls, removals,
                   wvars>>

\* h.mu.Unlock()   (line 132)
Unlock1(h) ==
    /\ pc[h] = "unlock1"
    /\ mu' = Free
    /\ pc' = [pc EXCEPT ![h] = "wait"]
    /\ UNCHANGED <<rooms, subscribes, hvars, evars, closeCalls, removals, wvars>>

\* <-ctx.Done()
Wait(h) ==
    /\ pc[h] = "wait"
    /\ Done(h)
    /\ pc' = [pc EXCEPT ![h] = "lock2"]
    /\ UNCHANGED <<rooms, subscribes, mu, hvars, evars, closeCalls,
                   removals, wvars>>

\* h.mu.Lock()   (line 136)
Lock2(h) ==
    /\ pc[h] = "lock2"
    /\ CanLock(mu)
    /\ mu' = h
    /\ pc' = [pc EXCEPT ![h] = "delete"]
    /\ UNCHANGED <<rooms, subscribes, hvars, evars, closeCalls, removals, wvars>>

\* delete(h.subscribes[rawRoomId], c)
Unregister(h) ==
    /\ pc[h] = "delete"
    /\ subscribes' = Delete(subscribes, rawRoomId[h], c[h])
    /\ removals' = [x \in Conns |->
          removals[x] +
          Cardinality({k \in RawIds :
                          /\ x \in Listeners(subscribes, k)
                          /\ x \notin Listeners(subscribes', k)})]
    /\ pc' = [pc EXCEPT ![h] = "unlock2"]
    /\ UNCHANGED <<rooms, mu, hvars, evars, closeCalls, wvars>>

\* h.mu.Unlock()   (line 140)
Unlock2(h) ==
    /\ pc[h] = "unlock2"
    /\ mu' = Free
    /\ pc' = [pc EXCEPT ![h] = "close"]
    /\ UNCHANGED <<rooms, subscribes, hvars, evars, closeCalls, removals, wvars>>

\* (a slip: the connection is never closed)
CloseForgotten(calls, conn) == calls

\* (a slip: an explicit Close besides the deferred one)
CloseTwice(calls, conn) == [calls EXCEPT ![conn] = @ + 2]

\* c.Close()
Close(calls, conn) == [calls EXCEPT ![conn] = @ + 1]

\* the deferred c.Close() runs as the handler returns
DeferredClose(h) ==
    /\ pc[h] = "close"
    /\ closeCalls' = Close(closeCalls, c[h])
    /\ pc' = [pc EXCEPT ![h] = "done"]
    /\ UNCHANGED <<rooms, subscribes, mu, hvars, evars, removals, wvars>>

\* ---------------------------------------------------------- environment
InFlight(h) == pc[h] \notin {"idle", "done"}

\* The client closes its end of the connection.  While the connection still
\* belongs to net/http, its background read sees the close and cancels
\* r.Context().  Hijack (inside Upgrade) stops that read: after a successful
\* upgrade the request context lives until ServeHTTP returns, whatever the
\* client does.
ClientClose(h) ==
    /\ InFlight(h)
    /\ ~clientClosed[h]
    /\ clientClosed' = [clientClosed EXCEPT ![h] = TRUE]
    /\ reqDone' = [reqDone EXCEPT ![h] = (c[h] = NoConn)]
    /\ UNCHANGED <<rooms, subscribes, mu, pc, hvars, cancelled,
                   closeCalls, removals, wvars>>

\* some holder of the registry invokes a stored cancel function
Evict ==
    /\ mu = Free
    /\ \E k \in DOMAIN subscribes : \E x \in DOMAIN subscribes[k] :
          /\ ~cancelled[subscribes[k][x]]
          /\ cancelled' = [cancelled EXCEPT ![subscribes[k][x]] = TRUE]
    /\ UNCHANGED <<rooms, subscribes, mu, pc, hvars, reqDone, clientClosed,
                   closeCalls, removals, wvars>>

\* ----------------------------------------------------------------- Next
HandlerStep(h) ==
    \/ ParseRoomId(h) \/ GetRoom(h) \/ Upgrade(h)
    \/ Lock1(h) \/ CheckRoom(h) \/ Make(h) \/ Register(h) \/ Unlock1(h)
    \/ Wait(h)
    \/ Lock2(h) \/ Unregister(h) \/ Unlock2(h) \/ DeferredClose(h)

Next ==
    \/ handleCreateRoom
    \/ \E h \in Handlers : HandlerStep(h)
    \/ \E h \in Handlers : ClientClose(h)
    \/ Evict

Spec == Init /\ [][Next]_vars

\* ------------------------------------------- the registry steps alone
\* The register step (lines 124-130) and the unregister step (line 138)
\* applied to any room key and connection, in any order and any number of
\* times: the registry as a data structure, without the handler around it.
RegisterCall(k, x) ==
    /\ subscribes' =
          Insert(IF k \in DOMAIN subscribes THEN subscribes
                 ELSE MakeRoom(subscribes, k), k, x, x)
    /\ UNCHANGED <<rooms, mu, pc, hvars, evars, closeCalls, removals, wvars>>

UnregisterCall(k, x) ==
    /\ subscribes' = Delete(subscribes, k, x)
    /\ UNCHANGED <<rooms, mu, pc, hvars, evars, closeCalls, removals, wvars>>

\* the keys a handler can reach the registry with: the ids that parse
ValidRawIds == {r \in RawIds : Parse(r) # NoUUID}

NextRegistry ==
    \E k \in ValidRawIds : \E x \in Conns :
        RegisterCall(k, x) \/ UnregisterCall(k, x)

SpecRegistry == Init /\ [][NextRegistry]_vars

\* ---------------------------------------------- the mutating handlers
\* handleCreateRoomMessage, handleReactToMessage and
\* handleMarkMessageAsAnswered have empty bodies: the request for room k is
\* answered (net/http sends 200 for a handler that writes nothing) and
\* nothing else happens.  No statement of the file writes to a connection,
\* so `delivered` is changed by no action.
handleCreateRoomMessage(k) ==
    /\ served' = served \cup {k}
    /\ UNCHANGED <<rooms, subscribes, mu, pc, hvars, evars, closeCalls,
                   removals, delivered>>

handleReactToMessage(k) ==
    /\ served' = served \cup {k}
    /\ UNCHANGED <<rooms, subscribes, mu, pc, hvars, evars, closeCalls,
                   removals, delivered>>

handleMarkMessageAsAnswered(k) ==
    /\ served' = served \cup {k}
    /\ UNCHANGED <<rooms, subscribes, mu, pc, hvars, evars, closeCalls,
                   removals, delivered>>

\* the subscribe handlers together with the mutating handlers
NextWrites ==
    \/ Next
    \/ \E k \in ValidRawIds : handleCreateRoomMessage(k)
    \/ \E k \in ValidRawIds : handleReactToMessage(k)
    \/ \E k \in ValidRawIds : handleMarkMessageAsAnswered(k)

SpecWrites == Init /\ [][NextWrites]_vars

\* ------------------------------------------------------------- fairness
\* Every goroutine that can take a step eventually takes it (the Go
\* scheduler is preemptive), and a goroutine blocked in Lock gets the mutex
\* if it is released again and again (sync.Mutex starvation mode).  The
\* environment (clients, whoever holds a cancel function) owes nothing.
LiveSpec ==
    /\ Spec
    /\ \A h \in Handlers : WF_vars(HandlerStep(h))
    /\ \A h \in Handlers : SF_vars(Lock1(h) \/ Lock2(h))

\* ------------------------------------------------------ derived notions
\* the goroutine has executed line 130
HasRegistered(h) ==
    /\ c[h] # NoConn
    /\ pc[h] \in {"unlock1", "wait", "lock2", "delete", "unlock2", "close",
                  "done"}

\* the goroutine has executed line 138
HasUnregistered(h) ==
    /\ c[h] # NoConn
    /\ pc[h] \in {"unlock2", "close", "done"}

\* the goroutine is between Lock and Unlock
InCritical(h) ==
    pc[h] \in {"check", "make", "insert", "unlock1", "delete", "unlock2"}

\* every (room key, connection) pair of the registry
Entries(subs) ==
    UNION {{<<k, x>> : x \in DOMAIN subs[k]} : k \in DOMAIN subs}

\* ------------------------------------------------------------------ C1
\* C1: whenever no goroutine is inside a register or unregister step (the
\* mutex is free), the listener set of every room key is exactly the
\* connections registered under that key minus those unregistered: none is
\* lost, none is left behind.
C1_ListenersAreRegisteredMinusUnregistered ==
    mu = Free =>
        \A k \in RawIds :
            Listeners(subscribes, k) =
                {c[h] : h \in {g \in Handlers :
                                  rawRoomId[g] = k /\ HasRegistered(g)}}
                \ {c[h] : h \in {g \in Handlers :
                                  rawRoomId[g] = k /\ HasUnregistered(g)}}

\* two sessions went through the same room key; one has left, one stays
C1_Witness ==
    /\ mu = Free
    /\ \E g, h \in Handlers :
          /\ g # h
          /\ rawRoomId[g] = rawRoomId[h]
          /\ HasUnregistered(g)
          /\ HasRegistered(h) /\ ~HasUnregistered(h)

\* ------------------------------------------------------------------ C2
\* C2: a session's connection leaves the registry at most once and is closed
\* at most once, it leaves only once its token has fired, and when its
\* handler has returned it has left exactly once and been closed exactly
\* once, whichever of the two ways the token fired.
C2_RemovedOnceClosedOnce ==
    \A h \in Handlers :
        c[h] # NoConn =>
            /\ removals[c[h]] <= 1
            /\ closeCalls[c[h]] <= 1
            /\ removals[c[h]] = 1 => Done(h)
            /\ pc[h] = "done" =>
                  /\ Done(h)
                  /\ removals[c[h]] = 1
                  /\ closeCalls[c[h]] = 1
                  /\ c[h] \notin Listeners(subscribes, rawRoomId[h])

\* one session ended by its request context, another by its stored cancel
C2_Witness ==
    \E g, h \in Handlers :
        /\ pc[g] = "done" /\ c[g] # NoConn /\ reqDone[g] /\ ~cancelled[g]
        /\ pc[h] = "done" /\ c[h] # NoConn /\ cancelled[h] /\ ~reqDone[h]

\* ------------------------------------------------------------------ C3
\* C3: a request for a well-formed id of a room the store does not hold
\* ends with a not-found outcome, without an upgrade and without a trace in
\* the registry.
C3_AbsentRoomEndsNotFound ==
    \A h \in Handlers :
        (pc[h] = "done" /\ err[h] = "ErrNoRows") =>
            /\ resp[h].code = "StatusNotFound"
            /\ c[h] = NoConn
            /\ \A e \in Entries(subscribes) : subscribes[e[1]][e[2]] # h

\* ------------------------------------------------------------------ C4
InvalidRaw == <<"not-a-uuid">>

\* C4: the step that ends a request for the id "not-a-uuid" is the first
\* step of its handler (no store lookup, no upgrade came before), answers
\* BadRequest, and leaves the registry and the store as they were.
C4_InvalidIdRejectedFirst ==
    [][\A h \in Handlers :
          (pc[h] # "done" /\ pc'[h] = "done" /\ rawRoomId'[h] = InvalidRaw) =>
              /\ pc[h] = "idle"
              /\ resp'[h].code = "StatusBadRequest"
              /\ err'[h] = "invalid"
              /\ roomId'[h] = NoUUID
              /\ c'[h] = NoConn
              /\ subscribes' = subscribes
              /\ rooms' = rooms]_vars

\* the invalid request was answered while the registry held a session
C4_Witness ==
    \E g, h \in Handlers :
        /\ pc[g] = "done" /\ rawRoomId[g] = InvalidRaw
        /\ HasRegistered(h) /\ ~HasUnregistered(h)

\* ------------------------------------------------------------------ C5
\* C5: a goroutine that is at a read or a write of the registry map holds
\* the mutex, so no two goroutines are at a registry access together.
C5_RegistryAccessUnderLock ==
    /\ \A h \in Handlers :
          pc[h] \in {"check", "make", "insert", "delete"} => mu = h
    /\ \A g, h \in Handlers :
          (g # h /\ pc[g] \in {"check", "make", "insert", "delete"})
              => pc[h] \notin {"check", "make", "insert", "delete"}

\* one goroutine writes the map while another is blocked in Lock
C5_Witness ==
    \E g, h \in Handlers :
        /\ pc[g] \in {"insert", "delete"}
        /\ pc[h] \in {"lock1", "lock2"}

\* ------------------------------------------------------------------ C6
\* C6: the registry changes only by a step of a goroutine whose room id
\* parsed, whose lookup succeeded and whose upgrade returned a connection;
\* every entry that appears is that goroutine's own connection under its
\* own key; and a goroutine whose attempt failed has returned and has no
\* connection.
C6_NoPartialRegistration ==
    [][/\ subscribes' # subscribes =>
            \E h \in Handlers :
               /\ pc'[h] # pc[h]
               /\ roomId[h] # NoUUID
               /\ err[h] = "nil"
               /\ c[h] # NoConn
               /\ resp[h].code = "StatusSwitchingProtocols"
               /\ Entries(subscribes') \ Entries(subscribes)
                      \subseteq {<<rawRoomId[h], c[h]>>}
               /\ DOMAIN subscribes' \ DOMAIN subscribes
                      \subseteq {rawRoomId[h]}
       /\ \A h \in Handlers :
            err'[h] # "nil" => (pc'[h] = "done" /\ c'[h] = NoConn)]_vars

\* a store error and a failed upgrade, next to a registered session
C6_Witness ==
    \E g, h \in Handlers :
        /\ pc[g] = "done" /\ err[g] \in {"ErrStore", "ErrUpgrade"}
        /\ rawRoomId[g] \notin DOMAIN subscribes
        /\ HasRegistered(h) /\ ~HasUnregistered(h)

\* ------------------------------------------------------------------ C7
\* C7: once the client of a registered session has closed the connection,
\* the session is eventually out of its room's listener set and its handler
\* has returned.
C7_ClientCloseLeadsToRemoval ==
    \A h \in Handlers :
        (HasRegistered(h) /\ ~HasUnregistered(h) /\ clientClosed[h])
            ~> (pc[h] = "done"
                    /\ c[h] \notin Listeners(subscribes, rawRoomId[h]))

\* ------------------------------------------------------------------ C8
\* C8: a connection leaves a listener set only by the delete step of its
\* own goroutine, after that goroutine's own token has fired, and that step
\* leaves every other entry of the registry, in every room, as it was.
C8_CancellationIsPerSession ==
    [][\A k \in RawIds : \A x \in Conns :
          (x \in Listeners(subscribes, k) /\ x \notin Listeners(subscribes', k))
          => /\ \E h \in Handlers :
                   /\ c[h] = x /\ rawRoomId[h] = k
                   /\ pc[h] = "delete" /\ pc'[h] = "unlock2"
                   /\ Done(h)
             /\ \A e \in Entries(subscribes) \ {<<k, x>>} :
                   /\ e \in Entries(subscribes')
                   /\ subscribes'[e[1]][e[2]] = subscribes[e[1]][e[2]]]_vars

\* a session has left while another session of the same room key idles on,
\* its token not fired, still in the listener set
C8_Witness ==
    \E g, h \in Handlers :
        /\ g # h
        /\ HasUnregistered(g)
        /\ rawRoomId[h] = rawRoomId[g]
        /\ pc[h] = "wait" /\ ~Done(h)
        /\ c[h] \in Listeners(subscribes, rawRoomId[h])

\* ------------------------------------------------------------------ C9
\* C9: in every registry, removing a connection from a room key that is
\* absent, or whose listener set does not hold it, gives the same registry;
\* and removing any connection twice gives what removing it once gives.
C9_UnregisterAbsentIsNoOp ==
    \A k \in RawIds : \A x \in Conns :
        /\ x \notin Listeners(subscribes, k)
              => Delete(subscribes, k, x) = subscribes
        /\ Delete(Delete(subscribes, k, x), k, x) = Delete(subscribes, k, x)

\* a registry with a room key that was never created, a room emptied by an
\* unregister, and a room that still has a listener
C9_Witness ==
    /\ \E k \in ValidRawIds : k \notin DOMAIN subscribes
    /\ \E k \in DOMAIN subscribes : subscribes[k] = EmptyMap
    /\ \E k \in DOMAIN subscribes : subscribes[k] # EmptyMap

\* ----------------------------------------------------------------- C10
\* C10: no connection is in the listener set of more than one room key.
C10_OneRoomPerSession ==
    \A x \in Conns :
        Cardinality({k \in DOMAIN subscribes : x \in DOMAIN subscribes[k]}) <= 1

\* two sessions are registered under two different room keys
C10_Witness ==
    \E j, k \in DOMAIN subscribes :
        /\ j # k
        /\ subscribes[j] # EmptyMap
        /\ subscribes[k] # EmptyMap

\* ----------------------------------------------------------------- C11
\* the handler has returned and has closed a connection
ClosedBy(h) == c[h] # NoConn /\ closeCalls[c[h]] >= 1

\* C11 as stated: whatever the exit path, a handler that has returned has
\* closed the connection.
C11_ClosedOnEveryExit ==
    \A h \in Handlers : pc[h] = "done" => ClosedBy(h)

\* C11 as amended: a handler that returns after a successful upgrade has
\* closed its connection exactly once; a handler that returned on an
\* invalid id, an absent room, a store error or a failed upgrade never held
\* a connection and closed none.
C11_ClosedOnEveryExitAfterUpgrade ==
    \A h \in Handlers :
        pc[h] = "done" =>
            \/ /\ c[h] # NoConn
               /\ err[h] = "nil"
               /\ closeCalls[c[h]] = 1
            \/ /\ c[h] = NoConn
               /\ err[h] \in {"invalid", "ErrNoRows", "ErrStore", "ErrUpgrade"}
               /\ closeCalls[NewConn(h)] = 0

\* one handler returned after an upgrade, another on an error path
C11_Witness ==
    \E g, h \in Handlers :
        /\ pc[g] = "done" /\ c[g] # NoConn
        /\ pc[h] = "done" /\ c[h] = NoConn

\* ----------------------------------------------------------------- C12
\* C12: the step that answers a mutating request for room k delivers one
\* event to exactly the connections that are in k's listener set at that
\* step, and to no other connection.
C12_BroadcastReachesSnapshot ==
    [][\A k \in RawIds :
          (k \in served' /\ k \notin served) =>
              \A x \in Conns :
                  delivered'[x] =
                      delivered[x] +
                      (IF x \in Listeners(subscribes, k) THEN 1 ELSE 0)]_vars

\* ----------------------------------------------------------------- C13
\* the listener x of room key k sits on a connection its client has closed:
\* a delivery to it fails
Broken(k, x) == clientClosed[subscribes[k][x]]

\* C13: at the step that answers a mutating request for room k, every
\* listener of k on a sound connection gets the event, whether or not
\* another listener of k is broken, and every broken listener of k is on
\* its way out of the registry: it has left the listener set or its token
\* has fired.
C13_FailedDeliveryIsLocal ==
    [][\A k \in RawIds :
          (k \in served' /\ k \notin served) =>
              \A x \in Listeners(subscribes, k) :
                  IF Broken(k, x)
                  THEN \/ x \notin Listeners(subscribes', k)
                       \/ cancelled'[subscribes[k][x]]
                  ELSE delivered'[x] = delivered[x] + 1]_vars

\* ----------------------------------------------------------------- C14
\* C14: the mutex is held only by a goroutine between its Lock and its
\* Unlock: never by one that waits for its token, that has returned or that
\* has not reached Lock; when no goroutine is between Lock and Unlock the
\* mutex is free for the next one.
C14_LockHeldOnlyAcrossMutation ==
    /\ \A h \in Handlers : mu = h => InCritical(h)
    /\ (\A h \in Handlers : ~InCritical(h)) => mu = Free

\* a session is parked, its token not fired, while another goroutine holds
\* the mutex for its own insert or delete
C14_Witness ==
    \E g, h \in Handlers :
        /\ pc[g] = "wait" /\ ~Done(g)
        /\ pc[h] \in {"insert", "delete"} /\ mu = h

\* ----------------------------------------------------------------- C15
\* the session of goroutine h is registered and has not been unregistered
Live(h) == HasRegistered(h) /\ ~HasUnregistered(h)

\* C15: two live sessions whose paths parsed to the same room id are in one
\* and the same listener set, whatever text each path carried.
C15_PartitionedByRoomId ==
    \A g, h \in Handlers :
        (Live(g) /\ Live(h) /\ roomId[g] = roomId[h]) =>
            \E k \in DOMAIN subscribes :
                {c[g], c[h]} \subseteq DOMAIN subscribes[k]

\* ----------------------------------------------------------------- C16
\* C16: no step takes a room key out of the registry; a goroutine about to
\* insert finds its room's listener set in place; the insert step adds its
\* connection and the delete step removes its connection only, both
\* leaving the set of room keys as it is.
C16_RoomKeysNeverShrink ==
    [][/\ DOMAIN subscribes \subseteq DOMAIN subscribes'
       /\ \A h \in Handlers :
            /\ pc'[h] = "insert" => rawRoomId'[h] \in DOMAIN subscribes'
            /\ (pc[h] = "insert" /\ pc'[h] = "unlock1") =>
                  /\ DOMAIN subscribes' = DOMAIN subscribes
                  /\ Listeners(subscribes', rawRoomId[h]) =
                        Listeners(subscribes, rawRoomId[h]) \cup {c[h]}
            /\ (pc[h] = "delete" /\ pc'[h] = "unlock2") =>
                  /\ DOMAIN subscribes' = DOMAIN subscribes
                  /\ Listeners(subscribes', rawRoomId[h]) =
                        Listeners(subscribes, rawRoomId[h]) \ {c[h]}]_vars

\* every session of a room has left and the room keeps an empty set
C16_Witness ==
    \E k \in DOMAIN subscribes :
        /\ subscribes[k] = EmptyMap
        /\ \E h \in Handlers : HasUnregistered(h) /\ rawRoomId[h] = k

\* ----------------------------------------------------------------- C17
\* C17: no connection that is in the registry has been closed by its
\* handler, and a handler that has closed its connection has deleted its
\* entry before.
C17_RegisteredConnectionsAreOpen ==
    /\ \A e \in Entries(subscribes) : closeCalls[e[2]] = 0
    /\ \A h \in Handlers :
          (c[h] # NoConn /\ closeCalls[c[h]] > 0) =>
              /\ HasUnregistered(h)
              /\ c[h] \notin Listeners(subscribes, rawRoomId[h])

\* one session is torn down and closed while another is still registered
C17_Witness ==
    \E g, h \in Handlers :
        /\ c[g] # NoConn /\ closeCalls[c[g]] = 1
        /\ Live(h) /\ c[h] \in Listeners(subscribes, rawRoomId[h])

\* ----------------------------------------------------------------- C18
\* C18: the entries of the registry are exactly the pairs (room key,
\* connection) of the goroutines that have registered and not yet
\* unregistered, one entry for each such goroutine, holding the cancel
\* function of that goroutine's own context; so when no subscribe handler is
\* in flight every listener set is empty.
C18_EntriesAreLiveHandlers ==
    /\ Entries(subscribes) =
          {<<rawRoomId[h], c[h]>> : h \in {g \in Handlers : Live(g)}}
    /\ \A g, h \in Handlers :
          (Live(g) /\ Live(h) /\ g # h) =>
              <<rawRoomId[g], c[g]>> # <<rawRoomId[h], c[h]>>
    /\ \A h \in Handlers :
          Live(h) => subscribes[rawRoomId[h]][c[h]] = h
    /\ (\A h \in Handlers : ~InFlight(h)) =>
          \A k \in DOMAIN subscribes : subscribes[k] = EmptyMap

\* every handler has returned, sessions came and went under two room keys
C18_Witness ==
    /\ \A h \in Handlers : pc[h] = "done"
    /\ \E g, h \in Handlers :
          /\ c[g] # NoConn /\ c[h] # NoConn
          /\ rawRoomId[g] # rawRoomId[h]

====
